---- MODULE Spec2Model ----
(***************************************************************************)
(* A model of the storage layer of nmath (math/src/storage): the storage   *)
(* types Entry, Ref, Mut, ArrayStorage, Join and VecStorage, the staged    *)
(* initializer UninitStackStorage, the layout operations merge_join,       *)
(* transmute_buffer, transmute_array and merge, the iterator Iter, swap,   *)
(* and the destructors that run in each of them.                           *)
(*                                                                         *)
(* A Rust value of a storage type is modelled as a tree (the struct as the *)
(* language sees it: fields inside fields).  Its memory is the sequence of *)
(* elements the layout attributes (repr(transparent), repr(C)) put it in.  *)
(* Code that goes through fields works on the tree; code that goes through *)
(* raw pointers (slice::from_raw_parts, transmute_copy, ptr.offset.write)  *)
(* works on the memory.                                                    *)
(***************************************************************************)
EXTENDS Integers, Sequences, FiniteSets, TLC

\* Largest element value; elements are 1..MaxVal.
MaxVal == 2
\* Longest sequence handed to from_iter, and largest buffer kept.
MaxLen == 3
\* Largest const parameter N of an ArrayStorage<S, N>.
MaxN == 2
\* Most merge_join calls chained on one buffer.
MaxMerge == 2
\* Most iter() calls made on one buffer.
MaxRuns == 2
\* Largest value pow_p and pow_z are called on, and largest exponent.
MaxBase == 3
MaxExp == 8

\* Stands for usize::MAX, the value unwrap gives a storage with no static
\* size (no such storage is a StackStorage, so the value is never used).
USIZE_MAX == 2147483647

Vals == 1 .. MaxVal

\* Option<T>: None is the empty sequence, Some(x) the one-element sequence.
None == << >>
Some(x) == << x >>

\* The content of a MaybeUninit slot that was never written.
UNINIT == -1

\* Panic messages; NoPanic when the call returned.
NoPanic == "none"
PanicFull == "stack storage full"
PanicNotFull == "stack storage not full"
PanicUnwrapNone == "called Option::unwrap() on a None value"
PanicOOB == "index out of bounds"
PanicAssertSize == "assertion failed: Self::SIZE == S::SIZE"
PanicAssertMemSize == "assertion failed: size_of::<Self>() == size_of::<S>()"
PanicAssertAlign == "assertion failed: align_of::<Self>() == align_of::<S>()"
PanicCouldNotFill == "iterator could not fill inner type"
PanicSizeMismatch == "size mismatch"
\* Not a panic: the call never returns.
Diverges == "diverges"
PanicTodo == "not yet implemented"
PanicUnreachable == "internal error: entered unreachable code"
\* Not a panic: unreachable_unchecked was reached, the behaviour is undefined.
Undefined == "undefined behaviour"

(***************************************************************************)
(* Types                                                                   *)
(***************************************************************************)
EntryT == << "Entry" >>
ArrayT(S, N) == << "Array", S, N >>
JoinT(A, B) == << "Join", A, B >>
VecT(S) == << "Vec", S >>
RefT(S) == << "Ref", S >>
MutT(S) == << "Mut", S >>

IsStack(ty) == ty[1] \in {"Entry", "Array", "Join"}

times(size, n) == IF size # None THEN Some(size[1] * n) ELSE None

add(a, b) == IF a # None /\ b # None THEN Some(a[1] + b[1]) ELSE None

unwrap(size) == IF size # None THEN size[1] ELSE USIZE_MAX

\* Storage::SIZE of each type.
RECURSIVE SIZE(_)
SIZE(ty) ==
    CASE ty[1] = "Entry" -> Some(1)
      [] ty[1] = "Array" -> times(SIZE(ty[2]), ty[3])
      [] ty[1] = "Join" -> add(SIZE(ty[2]), SIZE(ty[3]))
      [] ty[1] = "Vec" -> None
      [] ty[1] \in {"Ref", "Mut"} -> SIZE(ty[2])

\* StackStorage::SIZE_U.
SIZE_U(ty) == unwrap(SIZE(ty))

(***************************************************************************)
(* Values and their memory                                                 *)
(***************************************************************************)
EntryV(v) == << "Entry", v >>
ArrayV(subs) == << "Array", subs >>
JoinV(a, b) == << "Join", << a, b >> >>
VecV(chunks) == << "Vec", chunks >>
RefV(s) == << "Ref", << s >> >>
MutV(s) == << "Mut", << s >> >>

RECURSIVE Flatten(_)
Flatten(ss) == IF ss = << >> THEN << >> ELSE Head(ss) \o Flatten(Tail(ss))

\* Mem with Join laid out as the compiler may lay out a struct that is not
\* repr(C): the second field first.
RECURSIVE MemReordered(_)
MemReordered(val) ==
    CASE val[1] = "Entry" -> << val[2] >>
      [] val[1] = "Array" ->
           Flatten([i \in 1 .. Len(val[2]) |-> MemReordered(val[2][i])])
      [] val[1] = "Join" -> MemReordered(val[2][2]) \o MemReordered(val[2][1])

\* The memory of a stack storage value, in units of the inner type:
\* Entry and ArrayStorage are repr(transparent), Join is repr(C) over two
\* fields of the same alignment.
RECURSIVE Mem(_)
Mem(val) ==
    CASE val[1] = "Entry" -> << val[2] >>
      [] val[1] = "Array" -> Flatten([i \in 1 .. Len(val[2]) |-> Mem(val[2][i])])
      [] val[1] = "Join" -> Mem(val[2][1]) \o Mem(val[2][2])

\* FromMem with the sub-storages of an ArrayStorage interleaved: the i-th
\* takes every N-th element from the i-th on.
RECURSIVE FromMemStrided(_, _)
FromMemStrided(ty, mem) ==
    CASE ty[1] = "Entry" -> EntryV(mem[1])
      [] ty[1] = "Array" ->
           LET k == SIZE_U(ty[2])
           IN  ArrayV([i \in 1 .. ty[3] |->
                         FromMemStrided(ty[2], [j \in 1 .. k |-> mem[(j - 1) * ty[3] + i]])])
      [] ty[1] = "Join" ->
           LET m == SIZE_U(ty[2])
           IN  JoinV(FromMemStrided(ty[2], SubSeq(mem, 1, m)),
                     FromMemStrided(ty[3], SubSeq(mem, m + 1, m + SIZE_U(ty[3]))))

\* The value of type ty that a block of memory holds (mem::transmute_copy
\* into ty).
RECURSIVE FromMem(_, _)
FromMem(ty, mem) ==
    CASE ty[1] = "Entry" -> EntryV(mem[1])
      [] ty[1] = "Array" ->
           LET k == SIZE_U(ty[2])
           IN  ArrayV([i \in 1 .. ty[3] |->
                         FromMem(ty[2], SubSeq(mem, (i - 1) * k + 1, i * k))])
      [] ty[1] = "Join" ->
           LET m == SIZE_U(ty[2])
           IN  JoinV(FromMem(ty[2], SubSeq(mem, 1, m)),
                     FromMem(ty[3], SubSeq(mem, m + 1, m + SIZE_U(ty[3]))))

\* The destructor runs of one drop: who ran the destructor of each element
\* of elems, in order.
Dropped(by, elems) == [i \in 1 .. Len(elems) |-> << by, elems[i] >>]

\* The elements of a dropped storage value in the order the drop glue of
\* the structs destroys them: the fields in declaration order, the items
\* of an array or of a Vec from the first to the last.
RECURSIVE Owned(_)
Owned(val) ==
    CASE val[1] = "Entry" -> << val[2] >>
      [] val[1] \in {"Array", "Vec"} ->
           Flatten([i \in 1 .. Len(val[2]) |-> Owned(val[2][i])])
      [] val[1] = "Join" -> Owned(val[2][1]) \o Owned(val[2][2])

\* Dropping a storage value that owns its elements.
DropGlue(val) == Dropped("glue", Owned(val))

(***************************************************************************)
(* Results of calls: a call either returns a value or panics.              *)
(***************************************************************************)
Ok(v) == [panic |-> NoPanic, val |-> v]
Panic(msg) == [panic |-> msg, val |-> None]

(***************************************************************************)
(* UninitStackStorage<S>: [ty, storage, len]; storage is the memory of the *)
(* MaybeUninit<S>, SIZE_U(S) slots.                                        *)
(***************************************************************************)
\* UninitStackStorage::new
UninitNew(ty) ==
    [ty |-> ty, storage |-> [i \in 1 .. SIZE_U(ty) |-> UNINIT], len |-> 0]

\* push adding one to len before its bound test, so also when it panics.
UninitPushCounts(u, value) ==
    IF u.len < SIZE_U(u.ty)
    THEN [panic |-> NoPanic,
          val |-> [u EXCEPT !.storage =
                                [k \in DOMAIN u.storage |->
                                    IF k = u.len + 1 THEN value ELSE u.storage[k]],
                            !.len = u.len + 1]]
    ELSE [panic |-> PanicFull, val |-> [u EXCEPT !.len = u.len + 1]]

\* push with the bound test off by one (<= for <).
UninitPushOffByOne(u, value) ==
    IF u.len <= SIZE_U(u.ty)
    THEN [panic |-> NoPanic,
          val |-> [u EXCEPT !.storage =
                                [k \in DOMAIN u.storage |->
                                    IF k = u.len + 1 THEN value ELSE u.storage[k]],
                            !.len = u.len + 1]]
    ELSE [panic |-> PanicFull, val |-> u]

\* UninitStackStorage::push: the builder after the call, and the panic.
UninitPush(u, value) ==
    IF u.len < SIZE_U(u.ty)
    THEN [panic |-> NoPanic,
          val |-> [u EXCEPT !.storage =
                                [k \in DOMAIN u.storage |->
                                    IF k = u.len + 1 THEN value ELSE u.storage[k]],
                            !.len = u.len + 1]]
    ELSE [panic |-> PanicFull, val |-> u]

\* init without the test that the storage is full.
UninitInitUnchecked(u) == Ok(FromMem(u.ty, u.storage))

\* init with the test that the storage is full weakened (<= for ==).
UninitInitAtMost(u) ==
    IF u.len <= SIZE_U(u.ty)
    THEN Ok(FromMem(u.ty, u.storage))
    ELSE Panic(PanicNotFull)

\* UninitStackStorage::init
UninitInit(u) ==
    IF u.len = SIZE_U(u.ty)
    THEN Ok(FromMem(u.ty, u.storage))
    ELSE Panic(PanicNotFull)

\* drop running over every slot of the storage, written or not.
UninitDropAll(u) == Dropped("uninit", u.storage)

\* Drop::drop for UninitStackStorage: the slots 0 .. len - 1, in order.
UninitDrop(u) == Dropped("uninit", [i \in 1 .. u.len |-> u.storage[i]])

\* init taking self without ManuallyDrop: self is dropped when init ends.
UninitInitDropsSelf(u) == UninitDrop(u)

\* The destructors that run in init: none when the storage is full, for
\* self is wrapped in ManuallyDrop; those of self when init panics, for
\* the unwinding drops self.
UninitInitDrops(u) == IF u.len = SIZE_U(u.ty) THEN << >> ELSE UninitDrop(u)

\* The destructors that run in push: that of value when push panics.
UninitPushDrops(u, value) ==
    IF u.len < SIZE_U(u.ty) THEN << >> ELSE Dropped("arg", << value >>)

\* Extend::extend for UninitStackStorage: push every element of iter, the
\* first panic ends the loop.
RECURSIVE UninitExtend(_, _)
UninitExtend(u, iter) ==
    IF iter = << >>
    THEN [panic |-> NoPanic, val |-> u]
    ELSE LET r == UninitPush(u, Head(iter))
         IN  IF r.panic # NoPanic THEN r ELSE UninitExtend(r.val, Tail(iter))

\* The number of elements of iter that the loop of extend pushes before it
\* ends: all of them, or those before the first push that panics.
RECURSIVE Accepted(_, _)
Accepted(u, iter) ==
    IF iter = << >>
    THEN 0
    ELSE LET r == UninitPush(u, Head(iter))
         IN  IF r.panic # NoPanic THEN 0 ELSE 1 + Accepted(r.val, Tail(iter))

\* FromIterator::from_iter for UninitStackStorage
UninitFromIter(ty, iter) == UninitExtend(UninitNew(ty), iter)

\* StackStorage::_from_iter
StackFromIter(ty, iter) ==
    LET r == UninitFromIter(ty, iter)
    IN  IF r.panic # NoPanic THEN Panic(r.panic) ELSE UninitInit(r.val)

\* The destructors that run in _from_iter.  When a push panics the
\* unwinding drops its argument, the iterator with what it still holds,
\* and the builder; otherwise those that run in init.
StackFromIterDrops(ty, iter) ==
    LET r == UninitFromIter(ty, iter)
        k == r.val.len + 1
    IN  IF r.panic # NoPanic
        THEN Dropped("arg", << iter[k] >>)
               \o Dropped("iter", SubSeq(iter, k + 1, Len(iter)))
               \o UninitDrop(r.val)
        ELSE UninitInitDrops(r.val)

\* The destructors that run in from_iter for Entry: the iterator is dropped
\* with every element after the first.
EntryFromIterDrops(iter) ==
    IF iter = << >> THEN << >> ELSE Dropped("iter", Tail(iter))

\* FromIterator::from_iter for Entry
EntryFromIter(iter) ==
    IF iter = << >> THEN Panic(PanicUnwrapNone) ELSE Ok(EntryV(Head(iter)))

\* The inner loop forgetting the builder when the iterator runs out: the
\* elements of the chunk it was filling are never destroyed.
RECURSIVE VecFillForgets(_, _, _)
VecFillForgets(u, iter, n) ==
    IF n = 0
    THEN [panic |-> NoPanic, val |-> u, rest |-> iter]
    ELSE IF iter = << >>
         THEN [panic |-> PanicCouldNotFill, val |-> [u EXCEPT !.len = 0], rest |-> iter]
         ELSE LET r == UninitPush(u, Head(iter))
              IN  IF r.panic # NoPanic
                  THEN [panic |-> r.panic, val |-> u, rest |-> Tail(iter)]
                  ELSE VecFillForgets(r.val, Tail(iter), n - 1)

\* The inner loop ending without a panic when the iterator runs out.
RECURSIVE VecFillLax(_, _, _)
VecFillLax(u, iter, n) ==
    IF n = 0 \/ iter = << >>
    THEN [panic |-> NoPanic, val |-> u, rest |-> iter]
    ELSE LET r == UninitPush(u, Head(iter))
         IN  IF r.panic # NoPanic
             THEN [panic |-> r.panic, val |-> u, rest |-> Tail(iter)]
             ELSE VecFillLax(r.val, Tail(iter), n - 1)

\* The inner loop of from_iter for VecStorage, `for _ in 1..S::SIZE_U`, with
\* n iterations left: the builder and the rest of the iterator after it.
RECURSIVE VecFill(_, _, _)
VecFill(u, iter, n) ==
    IF n = 0
    THEN [panic |-> NoPanic, val |-> u, rest |-> iter]
    ELSE IF iter = << >>
         THEN [panic |-> PanicCouldNotFill, val |-> u, rest |-> iter]
         ELSE LET r == UninitPush(u, Head(iter))
              IN  IF r.panic # NoPanic
                  THEN [panic |-> r.panic, val |-> u, rest |-> Tail(iter)]
                  ELSE VecFill(r.val, Tail(iter), n - 1)

\* The outer loop of from_iter for VecStorage, `while let Some(val)`, with
\* the chunks pushed so far in vec.
RECURSIVE VecChunks(_, _, _)
VecChunks(S, iter, vec) ==
    IF iter = << >>
    THEN Ok(VecV(vec))
    ELSE LET first == UninitPush(UninitNew(S), Head(iter))
             filled == VecFill(first.val, Tail(iter), SIZE_U(S) - 1)
             chunk == UninitInit(filled.val)
         IN  IF first.panic # NoPanic THEN Panic(first.panic)
             ELSE IF filled.panic # NoPanic THEN Panic(filled.panic)
             ELSE IF chunk.panic # NoPanic THEN Panic(chunk.panic)
             ELSE VecChunks(S, filled.rest, Append(vec, chunk.val))

\* FromIterator::from_iter for VecStorage
VecFromIter(S, iter) ==
    IF SIZE_U(S) = 0 THEN Ok(VecV(<< >>)) ELSE VecChunks(S, iter, << >>)

\* The destructors that run in the loops of from_iter for VecStorage: when
\* the iterator cannot fill a chunk the unwinding drops the builder of the
\* chunk, then the vector of the chunks built before.
RECURSIVE VecChunksDrops(_, _, _)
VecChunksDrops(S, iter, vec) ==
    IF iter = << >>
    THEN << >>
    ELSE LET first == UninitPush(UninitNew(S), Head(iter))
             filled == VecFill(first.val, Tail(iter), SIZE_U(S) - 1)
             chunk == UninitInit(filled.val)
         IN  IF first.panic # NoPanic
             THEN UninitPushDrops(UninitNew(S), Head(iter))
                    \o UninitDrop(first.val) \o DropGlue(VecV(vec))
                    \o Dropped("iter", Tail(iter))
             ELSE IF filled.panic # NoPanic
             THEN UninitDrop(filled.val) \o DropGlue(VecV(vec))
                    \o Dropped("iter", filled.rest)
             ELSE IF chunk.panic # NoPanic
             THEN UninitInitDrops(filled.val) \o DropGlue(VecV(vec))
                    \o Dropped("iter", filled.rest)
             ELSE VecChunksDrops(S, filled.rest, Append(vec, chunk.val))

\* The destructors that run in from_iter for VecStorage: with SIZE_U zero
\* the iterator is dropped as it was handed in.
VecFromIterDrops(S, iter) ==
    IF SIZE_U(S) = 0 THEN Dropped("iter", iter) ELSE VecChunksDrops(S, iter, << >>)

\* The test that opens from_iter for VecStorage left out: the loop is
\* entered whatever SIZE_U is.
VecBeginNoTest(S) == "loop"

\* The test that opens from_iter for VecStorage: with SIZE_U zero the call
\* returns the empty vector, otherwise it goes into the loop.
VecBegin(S) == IF SIZE_U(S) = 0 THEN "done" ELSE "loop"

\* The next n results of next() that are Some, for an iterator that has
\* yielded `taken` elements: an endless one makes its elements on demand,
\* going round src; a finite one yields src and then None.
Upcoming(src, endless, taken, n) ==
    IF endless
    THEN [i \in 1 .. n |-> src[((taken + i - 1) % Len(src)) + 1]]
    ELSE SubSeq(src, taken + 1, IF taken + n <= Len(src) THEN taken + n ELSE Len(src))

\* The elements a finite iterator still holds, dropped with it; an endless
\* one holds none.
Unyielded(src, endless, taken) ==
    IF endless THEN << >> ELSE SubSeq(src, taken + 1, Len(src))

\* FromIterator::from_iter of an owned storage type.
FromIter(ty, iter) ==
    CASE ty[1] = "Entry" -> EntryFromIter(iter)
      [] ty[1] \in {"Array", "Join"} -> StackFromIter(ty, iter)
      [] ty[1] = "Vec" -> VecFromIter(ty[2], iter)

\* The destructors that run in from_iter of an owned storage type.
FromIterDrops(ty, iter) ==
    CASE ty[1] = "Entry" -> EntryFromIterDrops(iter)
      [] ty[1] \in {"Array", "Join"} -> StackFromIterDrops(ty, iter)
      [] ty[1] = "Vec" -> VecFromIterDrops(ty[2], iter)

\* into_iter with the chain of a Join taken in the wrong order.
RECURSIVE IntoIterSwapped(_)
IntoIterSwapped(val) ==
    CASE val[1] = "Entry" -> << val[2] >>
      [] val[1] \in {"Array", "Vec"} ->
           Flatten([i \in 1 .. Len(val[2]) |-> IntoIterSwapped(val[2][i])])
      [] val[1] = "Join" -> IntoIterSwapped(val[2][2]) \o IntoIterSwapped(val[2][1])

\* IntoIterator::into_iter, as the sequence the iterator yields: iter::once
\* for Entry, the flattened into_iter of the parts for ArrayStorage and
\* VecStorage, the chain of the two parts for Join.
RECURSIVE IntoIter(_)
IntoIter(val) ==
    CASE val[1] = "Entry" -> << val[2] >>
      [] val[1] \in {"Array", "Vec"} ->
           Flatten([i \in 1 .. Len(val[2]) |-> IntoIter(val[2][i])])
      [] val[1] = "Join" -> IntoIter(val[2][1]) \o IntoIter(val[2][2])

(***************************************************************************)
(* Storage, ContiguousStorage and Index                                    *)
(***************************************************************************)
\* _borrow reading the memory of self from its end backwards.
StackBorrowReversed(ty, val) == [i \in 1 .. SIZE_U(ty) |-> Mem(val)[SIZE_U(ty) + 1 - i]]

\* StackStorage::_borrow: SIZE_U elements read from the address of self.
StackBorrow(ty, val) == [i \in 1 .. SIZE_U(ty) |-> Mem(val)[i]]

\* borrow reading a heap block that holds the chunks last to first.
VecBorrowReversed(ty, val) ==
    LET n == Len(val[2])
        heap == Flatten([i \in 1 .. n |-> Mem(val[2][n + 1 - i])])
    IN  [i \in 1 .. n * SIZE_U(ty[2]) |-> heap[i]]

\* Borrow::borrow for VecStorage: len * SIZE_U elements read from the
\* vector's heap block, which holds the chunks one after the other.
VecBorrow(ty, val) ==
    LET heap == Flatten([i \in 1 .. Len(val[2]) |-> Mem(val[2][i])])
    IN  [i \in 1 .. Len(val[2]) * SIZE_U(ty[2]) |-> heap[i]]

\* Borrow<[Inner]>::borrow / ContiguousStorage::as_slice
RECURSIVE as_slice(_, _)
as_slice(ty, val) ==
    CASE IsStack(ty) -> StackBorrow(ty, val)
      [] ty[1] = "Vec" -> VecBorrow(ty, val)
      [] ty[1] \in {"Ref", "Mut"} -> as_slice(ty[2], val[2][1])

\* <[T]>::get with a 0-based index.
SliceGet(slice, index) ==
    IF index < Len(slice) THEN Some(slice[index + 1]) ELSE None

\* ContiguousStorage::_get
ContiguousGet(ty, val, index) == SliceGet(as_slice(ty, val), index)

\* ContiguousStorage::_len
ContiguousLen(ty, val) == Len(as_slice(ty, val))

\* ContiguousStorage::_index
ContiguousIndex(ty, val, index) ==
    LET s == as_slice(ty, val)
    IN  IF index < Len(s) THEN Ok(s[index + 1]) ELSE Panic(PanicOOB)

\* Storage::get
RECURSIVE get(_, _, _)
get(ty, val, index) ==
    CASE ty[1] = "Entry" -> IF index = 0 THEN Some(val[2]) ELSE None
      [] ty[1] \in {"Array", "Join", "Vec"} -> ContiguousGet(ty, val, index)
      [] ty[1] \in {"Ref", "Mut"} -> get(ty[2], val[2][1], index)

\* Storage::len
RECURSIVE len(_, _)
len(ty, val) ==
    CASE ty[1] = "Entry" -> 1
      [] ty[1] = "Array" -> ty[3]
      [] ty[1] = "Join" -> SIZE_U(ty)
      [] ty[1] = "Vec" -> ContiguousLen(ty, val)
      [] ty[1] \in {"Ref", "Mut"} -> len(ty[2], val[2][1])

\* Index::index
RECURSIVE index(_, _, _)
index(ty, val, i) ==
    CASE ty[1] \in {"Entry", "Array", "Join", "Vec"} -> ContiguousIndex(ty, val, i)
      [] ty[1] \in {"Ref", "Mut"} -> index(ty[2], val[2][1], i)

\* Iter::new
IterNew == [index |-> 0]

\* Iterator::next for Iter: what it returns, and the iterator after it.
IterNext(ty, val, iter) ==
    [out |-> get(ty, val, iter.index), iter |-> [index |-> iter.index + 1]]

\* <[T]>::get_mut through ContiguousStorageMut::_get_mut: the place of the
\* element, as its offset in as_mut_slice.
ContiguousGetMut(ty, val, i) ==
    IF i < Len(as_slice(ty, val)) THEN Some(i) ELSE None

\* StorageMut::get_mut, the reference it returns given as the offset of the
\* element in the memory of the storage.
RECURSIVE get_mut(_, _, _)
get_mut(ty, val, i) ==
    CASE ty[1] = "Entry" -> IF i = 0 THEN Some(0) ELSE None
      [] ty[1] \in {"Array", "Join", "Vec"} -> ContiguousGetMut(ty, val, i)
      [] ty[1] = "Mut" -> get_mut(ty[2], val[2][1], i)

\* The storage value after its memory was overwritten with mem through the
\* pointers get_mut gave out.
RECURSIVE WithMem(_, _, _)
WithMem(ty, val, mem) ==
    CASE IsStack(ty) -> FromMem(ty, mem)
      [] ty[1] = "Vec" ->
           LET k == SIZE_U(ty[2])
           IN  VecV([c \in 1 .. Len(val[2]) |->
                       FromMem(ty[2], SubSeq(mem, (c - 1) * k + 1, c * k))])
      [] ty[1] = "Mut" -> MutV(WithMem(ty[2], val[2][1], mem))

\* StorageMut::swap and Permutation::swap: both get_mut calls are unwrapped
\* before ptr::swap exchanges the two elements.
swap(ty, val, i, j) ==
    LET a == get_mut(ty, val, i)
        b == get_mut(ty, val, j)
        mem == as_slice(ty, val)
    IN  IF a = None \/ b = None
        THEN Panic(PanicUnwrapNone)
        ELSE Ok(WithMem(ty, val,
                        [k \in 1 .. Len(mem) |->
                            IF k = a[1] + 1 THEN mem[b[1] + 1]
                            ELSE IF k = b[1] + 1 THEN mem[a[1] + 1]
                            ELSE mem[k]]))

\* Size::<S>::from_usize: the value of the Size it returns, or the panic.
SizeFromUsize(ty, value) ==
    IF SIZE(ty) # None /\ SIZE(ty)[1] # value
    THEN Panic(PanicSizeMismatch)
    ELSE Ok(value)

\* Default::default for Size<S>
SizeDefault(ty) == SizeFromUsize(ty, SIZE_U(ty))

\* Storage::size
size(ty, val) == SizeFromUsize(ty, len(ty, val))

\* IterMut::new
IterMutNew == [index |-> 0]

\* next for IterMut with the index left where it was.
IterMutNextStuck(ty, val, iter) ==
    [out |-> get_mut(ty, val, iter.index), iter |-> [index |-> iter.index]]

\* Iterator::next for IterMut: the reference it returns, given as the
\* offset of the element in the memory of the storage, and the iterator
\* after it.
IterMutNext(ty, val, iter) ==
    [out |-> get_mut(ty, val, iter.index), iter |-> [index |-> iter.index + 1]]

(***************************************************************************)
(* Layout operations                                                       *)
(***************************************************************************)
\* Join::new with the two parts exchanged.
JoinNewSwapped(a, b) == [ty |-> JoinT(b.ty, a.ty), val |-> JoinV(b.val, a.val)]

\* Join::new, StackStorage::merge_join and JoinStorage::merge for Join
JoinNew(a, b) == [ty |-> JoinT(a.ty, b.ty), val |-> JoinV(a.val, b.val)]

\* mem::align_of of a stack storage type, in units of align_of::<Inner>():
\* a repr(transparent) struct has the alignment of its field, an array that
\* of its items, a repr(C) struct the largest alignment of its fields.
RECURSIVE AlignOf(_)
AlignOf(ty) ==
    CASE ty[1] = "Entry" -> 1
      [] ty[1] = "Array" -> AlignOf(ty[2])
      [] ty[1] = "Join" ->
           IF AlignOf(ty[2]) >= AlignOf(ty[3]) THEN AlignOf(ty[2]) ELSE AlignOf(ty[3])

\* n rounded up to a multiple of the alignment a.
RoundUp(n, a) == ((n + a - 1) \div a) * a

\* mem::size_of of a stack storage type, in units of size_of::<Inner>():
\* a repr(C) struct puts each field at the next multiple of its alignment
\* and ends at a multiple of its own.
RECURSIVE SizeOf(_)
SizeOf(ty) ==
    CASE ty[1] = "Entry" -> 1
      [] ty[1] = "Array" -> SizeOf(ty[2]) * ty[3]
      [] ty[1] = "Join" ->
           RoundUp(RoundUp(SizeOf(ty[2]), AlignOf(ty[3])) + SizeOf(ty[3]), AlignOf(ty))

\* transmute_buffer without its assertions: the memory of self is read as
\* an S, whatever its size; what lies past it is not initialised.
TransmuteBufferUnchecked(b, S) ==
    Ok([ty |-> S,
        val |-> FromMem(S, [i \in 1 .. SIZE_U(S) |->
                               IF i <= Len(Mem(b.val)) THEN Mem(b.val)[i] ELSE UNINIT])])

\* StackStorage::transmute_buffer
TransmuteBuffer(b, S) ==
    IF SIZE(b.ty) # SIZE(S) THEN Panic(PanicAssertSize)
    ELSE IF SizeOf(b.ty) # SizeOf(S) THEN Panic(PanicAssertMemSize)
    ELSE IF AlignOf(b.ty) # AlignOf(S) THEN Panic(PanicAssertAlign)
    ELSE Ok([ty |-> S, val |-> FromMem(S, Mem(b.val))])

\* StackStorage::transmute_array
TransmuteArray(b, N) == TransmuteBuffer(b, ArrayT(EntryT, N))

\* JoinStorage::merge for VecStorage<T>: the vector is extended with the
\* elements of a, then with those of b, each element a T.
VecMerge(T, a, b) ==
    [ty |-> VecT(T), val |-> VecV(IntoIter(a.val) \o IntoIter(b.val))]

\* transmute_buffer taking self without ManuallyDrop: self is dropped when
\* the call ends.
TransmuteDropsSelf(b, S) == DropGlue(b.val)

\* The destructors that run in transmute_buffer: none when it returns, for
\* self is wrapped in ManuallyDrop; those of self when an assertion fails,
\* for the unwinding drops self.
TransmuteDrops(b, S) ==
    IF TransmuteBuffer(b, S).panic = NoPanic THEN << >> ELSE DropGlue(b.val)

(***************************************************************************)
(* Permutation<S>: a storage of usize entries, which Permutation::new      *)
(* checks to be pairwise different and less than the length.               *)
(***************************************************************************)
\* enum Parity
Even == "Even"
Odd == "Odd"

\* Parity::flip
flip(parity) == IF parity = Even THEN Odd ELSE Even

\* Permutation::len
PermutationLen(ty, val) == len(ty, val)

\* Index::index for Permutation
PermutationIndex(ty, val, i) == index(ty, val, i)

\* Permutation::iter run to its end, from index i on: what next() yields
\* until get returns None.
RECURSIVE PermutationIterFrom(_, _, _)
PermutationIterFrom(ty, val, i) ==
    IF get(ty, val, i) = None
    THEN << >>
    ELSE << get(ty, val, i)[1] >> \o PermutationIterFrom(ty, val, i + 1)

\* Permutation::iter, as the sequence the iterator yields
PermutationIter(ty, val) == PermutationIterFrom(ty, val, 0)

\* The loop of Permutation::new over the entries left, with the flags set
\* so far: FALSE when an entry is out of the bounds of `checked` or was
\* seen before.
RECURSIVE NewLoop(_, _)
NewLoop(entries, checked) ==
    IF entries = << >>
    THEN TRUE
    ELSE LET v == Head(entries)
         IN  IF v >= Len(checked) THEN FALSE
             ELSE IF checked[v + 1] THEN FALSE
             ELSE NewLoop(Tail(entries), [checked EXCEPT ![v + 1] = TRUE])

\* Permutation::new: Some of the storage when the check passes.
PermutationNew(ty, val) ==
    IF NewLoop(PermutationIter(ty, val), [i \in 1 .. len(ty, val) |-> FALSE])
    THEN Some([ty |-> ty, val |-> val])
    ELSE None

\* The number of elements from_iter takes from an iterator that can yield
\* n: Entry takes one, a stack storage pushes until a push panics, a
\* VecStorage takes all, and none when its chunks are empty.
Pulls(ty, n) ==
    LET most == CASE ty[1] = "Entry" -> 1
                  [] ty[1] \in {"Array", "Join"} -> SIZE_U(ty) + 1
                  [] ty[1] = "Vec" -> IF SIZE_U(ty[2]) = 0 THEN 0 ELSE n
    IN  IF n <= most THEN n ELSE most

\* Permutation::identity, for the value n of the size witness
PermutationIdentity(ty, n) == FromIter(ty, [i \in 1 .. n |-> i - 1])

\* The closure of compose at idx: p[q[idx]], or the panic of an index.
ComposeAt(p, q, idx) ==
    LET inner == PermutationIndex(q.ty, q.val, idx)
    IN  IF inner.panic # NoPanic THEN inner ELSE PermutationIndex(p.ty, p.val, inner.val)

\* Permutation::compose into a storage of type ty: the map is lazy, so an
\* index panics when from_iter asks for that element.
PermutationCompose(ty, p, q) ==
    LET n == PermutationLen(p.ty, p.val)
        bad == {k \in 1 .. n : ComposeAt(p, q, k - 1).panic # NoPanic}
        ok == IF bad = {} THEN n ELSE (CHOOSE k \in bad : \A j \in bad : k <= j) - 1
        elems == [k \in 1 .. ok |-> ComposeAt(p, q, k - 1).val]
    IN  IF ok < n /\ Pulls(ty, n) > ok
        THEN Panic(PanicOOB)
        ELSE FromIter(ty, elems)

\* Mul for &Permutation<S>
PermutationMul(p, q) == PermutationCompose(p.ty, p, q)

\* The while loop of parity from j on, in the cycle of i: the flags and the
\* cycle length after it.  An index out of bounds panics; a walk that has
\* not come back to i after `fuel` steps never will, every j being a
\* different index of `checked`.
RECURSIVE ParityCycle(_, _, _, _, _, _, _)
ParityCycle(ty, val, i, j, checked, length, fuel) ==
    IF j = i
    THEN Ok([checked |-> checked, len |-> length])
    ELSE IF j >= Len(checked) THEN Panic(PanicOOB)
    ELSE IF fuel = 0 THEN Panic(Diverges)
    ELSE LET nxt == PermutationIndex(ty, val, j)
         IN  IF nxt.panic # NoPanic
             THEN nxt
             ELSE ParityCycle(ty, val, i, nxt.val, [checked EXCEPT ![j + 1] = TRUE],
                              length + 1, fuel - 1)

\* The for loop of parity from i on.
RECURSIVE ParityLoop(_, _, _, _, _)
ParityLoop(ty, val, i, checked, parity) ==
    IF i >= PermutationLen(ty, val)
    THEN Ok(parity)
    ELSE IF checked[i + 1]
    THEN ParityLoop(ty, val, i + 1, checked, parity)
    ELSE LET first == PermutationIndex(ty, val, i)
             cycle == ParityCycle(ty, val, i, first.val,
                                  [checked EXCEPT ![i + 1] = TRUE], 1, Len(checked))
         IN  IF first.panic # NoPanic THEN first
             ELSE IF cycle.panic # NoPanic THEN cycle
             ELSE ParityLoop(ty, val, i + 1, cycle.val.checked,
                             IF cycle.val.len % 2 = 0 THEN flip(parity) ELSE parity)

\* Permutation::parity
PermutationParity(ty, val) ==
    ParityLoop(ty, val, 0, [i \in 1 .. PermutationLen(ty, val) |-> FALSE], Even)

(***************************************************************************)
(* The algebra crate: the magmas of u8 under Add and Mul, and powers by    *)
(* repeated squaring with an exponent of a type implementing Naturals.     *)
(***************************************************************************)
U8_MAX == 255

\* BinOp::bin_op for u8: checked_add for Add, checked_mul for Mul; Err(())
\* is None.
bin_op(Op, x, y) ==
    LET r == IF Op = "Add" THEN x + y ELSE x * y
    IN  IF r <= U8_MAX THEN Some(r) ELSE None

\* unwrap_unchecked: on Err it reaches unreachable(), which panics in a
\* build with debug assertions and is undefined behaviour in one without.
unwrap_unchecked(res, debug) ==
    IF res # None THEN Ok(res[1])
    ELSE IF debug THEN Panic(PanicUnreachable) ELSE Panic(Undefined)

\* Magma::op_assign_lhs, as the new value of self
op_assign_lhs(Op, self, rhs, debug) == unwrap_unchecked(bin_op(Op, self, rhs), debug)

\* LeftUnital::left_id of the implementor: the identity of the operation.
id(Op) == IF Op = "Add" THEN 0 ELSE 1

\* Naturals::div_assign_prim, as the new value of e: the provided method
\* is todo!(); an implementor that overrides it divides.
div_assign_prim(e, n, overridden) ==
    IF overridden THEN Ok(e \div n) ELSE Panic(PanicTodo)

\* The while loop of pow_p.
RECURSIVE PowLoop(_, _, _, _, _, _)
PowLoop(Op, self, x, e, debug, overridden) ==
    IF ~(e > 1)
    THEN Ok(self)
    ELSE LET s == IF e % 2 = 1 THEN op_assign_lhs(Op, self, x, debug) ELSE Ok(self)
             sq == op_assign_lhs(Op, x, x, debug)
             half == div_assign_prim(e, 2, overridden)
         IN  IF s.panic # NoPanic THEN s
             ELSE IF sq.panic # NoPanic THEN sq
             ELSE IF half.panic # NoPanic THEN half
             ELSE PowLoop(Op, s.val, sq.val, half.val, debug, overridden)

\* PowAssociative::pow_p, as the new value of self
pow_p(Op, self, e, debug, overridden) ==
    IF e <= 1 THEN Ok(self) ELSE PowLoop(Op, self, self, e, debug, overridden)

\* UnitalPowAssociative::pow_z, as the new value of self
pow_z(Op, self, e, debug, overridden) ==
    IF e = 0 THEN Ok(id(Op)) ELSE pow_p(Op, self, e, debug, overridden)

(***************************************************************************)
(* The state: a program holding one storage value and one staged           *)
(* initializer, and calling the operations of the storage layer on them.   *)
(***************************************************************************)
VARIABLES
    buf,      \* the storage held, [ty, val]; NoBuf before it is built, Moved
              \* once it was consumed or dropped, or its construction panicked
              \* or was given up
    uninit,   \* the UninitStackStorage held, [ty, storage, len], or NoUninit
    ret,      \* the last call: its name, arguments, result and panic
    origin,   \* history: Some(the sequence buf was collected from), or None
    pushed,   \* history: the values of the push calls on uninit that returned
    calls,    \* history: the number of push calls made on uninit
    dropped,  \* history: the destructor runs so far, << by, element >> each
    via,      \* history: the calls that built and that transmuted the storage
    it,       \* the Iter over buf held: its index, and as history what its
              \* next() calls returned and the number of iter() calls; or NoIter
    fi        \* the VecStorage::from_iter call in progress, or NoRun

vars == << buf, uninit, ret, origin, pushed, calls, dropped, via, it, fi >>

NoBuf == [ty |-> << "none" >>, val |-> << "none" >>]
Moved == [ty |-> << "moved" >>, val |-> << "moved" >>]
Live(b) == b # NoBuf /\ b # Moved
NoUninit == [ty |-> << "none" >>, storage |-> << >>, len |-> 0]
NoIter == [index |-> 0, out |-> << >>, run |-> 0]
NoRun == [pc |-> "none"]

NoRet ==
    [op |-> "none", ty |-> << "none" >>, seq |-> << >>, idx |-> 0,
     a |-> NoBuf, b |-> NoBuf, u |-> NoUninit, out |-> None, panic |-> NoPanic]

\* The types the program instantiates: stack storages nested two deep, and
\* vectors of the one-deep ones.
T0 == {EntryT}
T1 == T0 \cup {ArrayT(S, N) : S \in T0, N \in 0 .. MaxN}
         \cup {JoinT(A, B) : A \in T0, B \in T0}
StackTypes == T1 \cup {ArrayT(S, N) : S \in T1, N \in 0 .. MaxN}
                 \cup {JoinT(A, B) : A \in T1, B \in T1}
OwnedTypes == StackTypes \cup {VecT(S) : S \in T1}

\* The sequences an iterator handed to from_iter yields.
Seqs == UNION {[1 .. n -> Vals] : n \in 0 .. MaxLen}

\* The sequences of usize an iterator handed to from_iter yields, for the
\* storage of a permutation.
Usizes == 0 .. MaxVal
UsizeSeqs == UNION {[1 .. n -> Usizes] : n \in 0 .. MaxLen}

\* The values Permutation::new returns Some of, for storages of type ty.
PermutationsOf(ty) ==
    {[ty |-> ty, val |-> FromIter(ty, s).val] :
        s \in {t \in UsizeSeqs : /\ FromIter(ty, t).panic = NoPanic
                                 /\ PermutationNew(ty, FromIter(ty, t).val) # None}}

\* The ArrayStorage types of at most MaxLen + 1 elements.
ArrayTypes == {ty \in {ArrayT(S, N) : S \in T1, N \in 0 .. MaxN} : SIZE_U(ty) <= MaxLen + 1}

\* The sequences an iterator handed to extend yields: none, one or two
\* elements.
ExtendSeqs == {s \in Seqs : Len(s) <= 2}

\* The stack storages of type ty, handed to merge_join as `other`.
Others(ty) == {[ty |-> ty, val |-> FromMem(ty, m)] : m \in [1 .. SIZE_U(ty) -> Vals]}

\* The stack storages of type T, as elements of a storage of chunks.
Chunks(T) == {FromMem(T, m) : m \in [1 .. SIZE_U(T) -> Vals]}

\* The types of the storages handed to merge.
HolderTypes == T1 \cup {VecT(S) : S \in T0}

\* A storage of type ty can hold exactly n elements.
Fits(ty, n) ==
    IF ty[1] = "Vec"
    THEN IF SIZE_U(ty[2]) = 0 THEN n = 0 ELSE n % SIZE_U(ty[2]) = 0
    ELSE SIZE_U(ty) = n

\* The owned storages of n elements, each a stack storage of type T.
Holders(T, n) ==
    {[ty |-> p[1], val |-> FromIter(p[1], p[2]).val] :
        p \in {q \in HolderTypes \X [1 .. n -> Chunks(T)] : Fits(q[1], n)}}

\* The number of Join layers merge_join has put around a type.
RECURSIVE JoinDepth(_)
JoinDepth(ty) == IF ty[1] = "Join" THEN 1 + JoinDepth(ty[2]) ELSE 0

IsView(ty) == ty[1] \in {"Ref", "Mut"}

\* The calls that transmute the storage held.
Transmutes == {"transmute_buffer", "transmute_array"}

Init ==
    /\ buf = NoBuf
    /\ uninit = NoUninit
    /\ ret = NoRet
    /\ origin = None
    /\ pushed = << >>
    /\ calls = 0
    /\ dropped = << >>
    /\ via = {}
    /\ it = NoIter
    /\ fi = NoRun

\* let buf: ty = iter.collect(); for a type of Types and a sequence of Seqs.
DoFromIter(Types) ==
    /\ buf = NoBuf
    /\ uninit = NoUninit
    /\ \E ty \in Types, iter \in Seqs :
          LET r == FromIter(ty, iter)
          IN  /\ buf' = IF r.panic = NoPanic THEN [ty |-> ty, val |-> r.val] ELSE Moved
              /\ origin' = IF r.panic = NoPanic THEN Some(iter) ELSE None
              /\ ret' = [NoRet EXCEPT !.op = "from_iter", !.ty = ty, !.seq = iter,
                                      !.panic = r.panic]
              /\ dropped' = dropped \o FromIterDrops(ty, iter)
    /\ via' = {"from_iter"}
    /\ UNCHANGED << uninit, pushed, calls, it, fi >>

\* let buf: ty = iter.collect(); for a type of Types and a sequence of as
\* many elements as the type holds.
DoCollect(Types) ==
    /\ buf = NoBuf
    /\ uninit = NoUninit
    /\ \E ty \in Types :
          \E iter \in [1 .. SIZE_U(ty) -> Vals] :
             LET r == FromIter(ty, iter)
             IN  /\ SIZE_U(ty) <= MaxLen
                 /\ buf' = IF r.panic = NoPanic THEN [ty |-> ty, val |-> r.val] ELSE Moved
                 /\ origin' = IF r.panic = NoPanic THEN Some(iter) ELSE None
                 /\ ret' = [NoRet EXCEPT !.op = "from_iter", !.ty = ty, !.seq = iter,
                                         !.panic = r.panic]
                 /\ dropped' = dropped \o FromIterDrops(ty, iter)
    /\ via' = {"from_iter"}
    /\ UNCHANGED << uninit, pushed, calls, it, fi >>

\* let buf: ty = iter.collect(); for an ArrayStorage type and a sequence of
\* one element less than it holds, of as many, or of one more.
DoCollectArray ==
    /\ buf = NoBuf
    /\ uninit = NoUninit
    /\ \E ty \in ArrayTypes :
          \E n \in {SIZE_U(ty) - 1, SIZE_U(ty), SIZE_U(ty) + 1} \cap Nat :
             \E iter \in [1 .. n -> Vals] :
                LET r == FromIter(ty, iter)
                IN  /\ buf' = IF r.panic = NoPanic THEN [ty |-> ty, val |-> r.val] ELSE Moved
                    /\ origin' = IF r.panic = NoPanic THEN Some(iter) ELSE None
                    /\ ret' = [NoRet EXCEPT !.op = "from_iter", !.ty = ty, !.seq = iter,
                                            !.panic = r.panic]
                    /\ dropped' = dropped \o FromIterDrops(ty, iter)
    /\ via' = {"from_iter"}
    /\ UNCHANGED << uninit, pushed, calls, it, fi >>

\* buf.into_iter().collect::<Vec<_>>()
DoIntoIter ==
    /\ Live(buf)
    /\ ~IsView(buf.ty)
    /\ ret' = [NoRet EXCEPT !.op = "into_iter", !.a = buf, !.out = IntoIter(buf.val)]
    /\ buf' = Moved
    /\ UNCHANGED << uninit, origin, pushed, calls, dropped, via, it, fi >>

\* buf = buf.merge_join(other); for every stack storage `other` of type ty,
\* on a storage that was not transmuted yet.
DoMergeJoin(ty) ==
    /\ Live(buf)
    /\ IsStack(buf.ty)
    /\ via \cap Transmutes = {}
    /\ JoinDepth(buf.ty) < MaxMerge
    /\ SIZE_U(buf.ty) + SIZE_U(ty) <= MaxLen
    /\ \E other \in Others(ty) :
          /\ buf' = JoinNew(buf, other)
          /\ ret' = [NoRet EXCEPT !.op = "merge_join", !.a = buf, !.b = other]
    /\ origin' = None
    /\ UNCHANGED << uninit, pushed, calls, dropped, via, it, fi >>

\* buf = buf.transmute_array::<N>();
DoTransmuteArray(N) ==
    /\ Live(buf)
    /\ IsStack(buf.ty)
    /\ LET r == TransmuteArray(buf, N)
       IN  /\ buf' = IF r.panic = NoPanic THEN r.val ELSE Moved
           /\ ret' = [NoRet EXCEPT !.op = "transmute_array", !.a = buf, !.idx = N,
                                   !.panic = r.panic]
    /\ dropped' = dropped \o TransmuteDrops(buf, ArrayT(EntryT, N))
    /\ origin' = None
    /\ via' = via \cup {"transmute_array"}
    /\ UNCHANGED << uninit, pushed, calls, it, fi >>

\* buf = buf.transmute_buffer::<S>(); once in a run.
DoTransmuteBuffer(S) ==
    /\ Live(buf)
    /\ IsStack(buf.ty)
    /\ "transmute_buffer" \notin via
    /\ LET r == TransmuteBuffer(buf, S)
       IN  /\ buf' = IF r.panic = NoPanic THEN r.val ELSE Moved
           /\ ret' = [NoRet EXCEPT !.op = "transmute_buffer", !.a = buf, !.ty = S,
                                   !.panic = r.panic]
    /\ dropped' = dropped \o TransmuteDrops(buf, S)
    /\ origin' = None
    /\ via' = via \cup {"transmute_buffer"}
    /\ UNCHANGED << uninit, pushed, calls, it, fi >>

\* let buf = VecStorage::<T>::merge(a, b); for storages a and b of m and n
\* chunks of type T that make at most MaxLen elements.
DoMergeVec(T, m, n) ==
    /\ buf = NoBuf
    /\ uninit = NoUninit
    /\ fi = NoRun
    /\ (m + n) * SIZE_U(T) <= MaxLen
    /\ \E a \in Holders(T, m), b \in Holders(T, n) :
          /\ buf' = VecMerge(T, a, b)
          /\ ret' = [NoRet EXCEPT !.op = "merge", !.ty = VecT(T), !.a = a, !.b = b]
    /\ via' = {"merge"}
    /\ UNCHANGED << uninit, origin, pushed, calls, dropped, it, fi >>

\* VecStorage::<S>::from_iter(iter) is called and runs up to its loop, for
\* a finite iterator over src or an endless one going round src.
DoVecBegin(S) ==
    /\ buf = NoBuf
    /\ uninit = NoUninit
    /\ fi = NoRun
    /\ \E src \in Seqs, endless \in BOOLEAN :
          /\ endless => src # << >>
          /\ fi' = [pc |-> VecBegin(S), S |-> S, src |-> src, endless |-> endless,
                    taken |-> 0, vec |-> << >>]
          /\ IF VecBegin(S) = "done"
             THEN /\ buf' = [ty |-> VecT(S), val |-> VecV(<< >>)]
                  /\ ret' = [NoRet EXCEPT !.op = "from_iter", !.ty = VecT(S), !.seq = src]
                  /\ dropped' = dropped \o Dropped("iter", Unyielded(src, endless, 0))
                  /\ origin' = Some(src)
             ELSE /\ ret' = [NoRet EXCEPT !.op = "from_iter_begin", !.ty = VecT(S),
                                          !.seq = src]
                  /\ UNCHANGED << buf, dropped, origin >>
    /\ via' = {"from_iter"}
    /\ UNCHANGED << uninit, pushed, calls, it >>

\* One turn of the loop `while let Some(val) = iter.next()` of from_iter
\* for VecStorage: the call returns the vector when the iterator has ended,
\* otherwise it builds one chunk or panics in building it.  An endless
\* iterator is followed for MaxLen elements.
DoVecChunk ==
    /\ fi.pc = "loop"
    /\ fi.endless => fi.taken < MaxLen
    /\ LET S == fi.S
           head == Upcoming(fi.src, fi.endless, fi.taken, 1)
           more == Upcoming(fi.src, fi.endless, fi.taken + 1, SIZE_U(S) - 1)
           first == UninitPush(UninitNew(S), head[1])
           filled == VecFill(first.val, more, SIZE_U(S) - 1)
           chunk == UninitInit(filled.val)
           panic == IF first.panic # NoPanic THEN first.panic
                    ELSE IF filled.panic # NoPanic THEN filled.panic
                    ELSE chunk.panic
           taken == IF first.panic # NoPanic THEN fi.taken + 1
                    ELSE fi.taken + 1 + Len(more)
           local == IF first.panic # NoPanic
                    THEN UninitPushDrops(UninitNew(S), head[1]) \o UninitDrop(first.val)
                    ELSE IF filled.panic # NoPanic THEN UninitDrop(filled.val)
                    ELSE UninitInitDrops(filled.val)
       IN  IF head = << >>
           THEN /\ fi' = [fi EXCEPT !.pc = "done"]
                /\ buf' = [ty |-> VecT(S), val |-> VecV(fi.vec)]
                /\ ret' = [NoRet EXCEPT !.op = "from_iter", !.ty = VecT(S), !.seq = fi.src]
                /\ origin' = Some(fi.src)
                /\ UNCHANGED dropped
           ELSE IF panic # NoPanic
           THEN /\ fi' = [fi EXCEPT !.pc = "panicked", !.taken = taken]
                /\ buf' = Moved
                /\ ret' = [NoRet EXCEPT !.op = "from_iter", !.ty = VecT(S), !.seq = fi.src,
                                        !.panic = panic]
                /\ dropped' = dropped \o local \o DropGlue(VecV(fi.vec))
                                  \o Dropped("iter", Unyielded(fi.src, fi.endless, taken))
                /\ UNCHANGED origin
           ELSE /\ fi' = [fi EXCEPT !.taken = taken, !.vec = Append(fi.vec, chunk.val)]
                /\ ret' = [NoRet EXCEPT !.op = "from_iter_turn", !.ty = VecT(S),
                                        !.seq = fi.src]
                /\ UNCHANGED << buf, dropped, origin >>
    /\ UNCHANGED << uninit, pushed, calls, via, it >>

\* let mut it = buf.iter(); at most MaxRuns times on one storage.
DoIter ==
    /\ Live(buf)
    /\ it.run < MaxRuns
    /\ it' = [index |-> IterNew.index, out |-> << >>, run |-> it.run + 1]
    /\ ret' = [NoRet EXCEPT !.op = "iter"]
    /\ UNCHANGED << buf, uninit, origin, pushed, calls, dropped, via, fi >>

\* it.next(); up to two calls after the last element.
DoIterNext ==
    /\ Live(buf)
    /\ it # NoIter
    /\ it.index <= MaxLen + 1
    /\ LET r == IterNext(buf.ty, buf.val, it)
       IN  /\ it' = [it EXCEPT !.index = r.iter.index, !.out = Append(it.out, r.out)]
           /\ ret' = [NoRet EXCEPT !.op = "next", !.out = r.out]
    /\ UNCHANGED << buf, uninit, origin, pushed, calls, dropped, via, fi >>

\* let mut it = buf.iter_mut(); at most MaxRuns times on one storage, each
\* after the iterator before it and its references are gone.
DoIterMut ==
    /\ Live(buf)
    /\ buf.ty[1] # "Ref"
    /\ it.run < MaxRuns
    /\ it' = [index |-> IterMutNew.index, out |-> << >>, run |-> it.run + 1]
    /\ ret' = [NoRet EXCEPT !.op = "iter_mut"]
    /\ UNCHANGED << buf, uninit, origin, pushed, calls, dropped, via, fi >>

\* it.next() on the IterMut; up to two calls after the last element.
DoIterMutNext ==
    /\ Live(buf)
    /\ it # NoIter
    /\ it.index <= MaxLen + 1
    /\ Len(it.out) <= MaxLen + 1
    /\ LET r == IterMutNext(buf.ty, buf.val, it)
       IN  /\ it' = [it EXCEPT !.index = r.iter.index, !.out = Append(it.out, r.out)]
           /\ ret' = [NoRet EXCEPT !.op = "next_mut", !.out = r.out]
    /\ UNCHANGED << buf, uninit, origin, pushed, calls, dropped, via, fi >>

\* buf.size(); a panic is caught, so the program goes on with buf.
DoSize ==
    /\ Live(buf)
    /\ LET r == size(buf.ty, buf.val)
       IN  ret' = [NoRet EXCEPT !.op = "size", !.ty = buf.ty,
                                !.out = IF r.panic = NoPanic THEN Some(r.val) ELSE None,
                                !.panic = r.panic]
    /\ UNCHANGED << buf, uninit, origin, pushed, calls, dropped, via, it, fi >>

\* Size::<S>::from_usize(value), S the type of buf.
DoSizeFromUsize(value) ==
    /\ Live(buf)
    /\ LET r == SizeFromUsize(buf.ty, value)
       IN  ret' = [NoRet EXCEPT !.op = "from_usize", !.ty = buf.ty, !.idx = value,
                                !.out = IF r.panic = NoPanic THEN Some(r.val) ELSE None,
                                !.panic = r.panic]
    /\ UNCHANGED << buf, uninit, origin, pushed, calls, dropped, via, it, fi >>

\* Size::<S>::default(), S the stack storage type of buf.
DoSizeDefault ==
    /\ Live(buf)
    /\ IsStack(buf.ty)
    /\ LET r == SizeDefault(buf.ty)
       IN  ret' = [NoRet EXCEPT !.op = "size_default", !.ty = buf.ty,
                                !.out = IF r.panic = NoPanic THEN Some(r.val) ELSE None,
                                !.panic = r.panic]
    /\ UNCHANGED << buf, uninit, origin, pushed, calls, dropped, via, it, fi >>

\* let s: ty = iter.collect(); for a type of Types and a sequence of usize,
\* which have no destructor to run.
DoFromUsizes(Types) ==
    /\ buf = NoBuf
    /\ uninit = NoUninit
    /\ \E ty \in Types, iter \in UsizeSeqs :
          LET r == FromIter(ty, iter)
          IN  /\ buf' = IF r.panic = NoPanic THEN [ty |-> ty, val |-> r.val] ELSE Moved
              /\ origin' = IF r.panic = NoPanic THEN Some(iter) ELSE None
              /\ ret' = [NoRet EXCEPT !.op = "from_iter", !.ty = ty, !.seq = iter,
                                      !.panic = r.panic]
    /\ via' = {"from_iter"}
    /\ UNCHANGED << uninit, pushed, calls, dropped, it, fi >>

\* let p = Permutation::new(s); on None the storage is gone, on Some the
\* program goes on with the permutation.
DoPermutationNew ==
    /\ Live(buf)
    /\ ~IsView(buf.ty)
    /\ "new" \notin via
    /\ LET r == PermutationNew(buf.ty, buf.val)
       IN  /\ buf' = IF r = None THEN Moved ELSE r[1]
           /\ via' = IF r = None THEN via ELSE via \cup {"new"}
           /\ ret' = [NoRet EXCEPT !.op = "new", !.ty = buf.ty, !.a = buf, !.out = r]
    /\ UNCHANGED << uninit, origin, pushed, calls, dropped, it, fi >>

\* Permutation::<S>::identity(Size::from_usize(value)), S the type of the
\* permutation held; a panic is caught.
DoIdentity(value) ==
    /\ Live(buf)
    /\ "new" \in via
    /\ LET sz == SizeFromUsize(buf.ty, value)
           r == IF sz.panic # NoPanic THEN Panic(sz.panic)
                ELSE PermutationIdentity(buf.ty, sz.val)
       IN  ret' = [NoRet EXCEPT !.op = "identity", !.ty = buf.ty, !.idx = value,
                                !.out = IF r.panic = NoPanic THEN Some(r.val) ELSE None,
                                !.panic = r.panic]
    /\ UNCHANGED << buf, uninit, origin, pushed, calls, dropped, via, it, fi >>

\* &p * &q, q a permutation of the type of p; a panic is caught.
DoMul ==
    /\ Live(buf)
    /\ "new" \in via
    /\ \E q \in PermutationsOf(buf.ty) :
          LET r == PermutationMul(buf, q)
          IN  ret' = [NoRet EXCEPT !.op = "mul", !.ty = buf.ty, !.a = buf, !.b = q,
                                   !.out = IF r.panic = NoPanic THEN Some(r.val) ELSE None,
                                   !.panic = r.panic]
    /\ UNCHANGED << buf, uninit, origin, pushed, calls, dropped, via, it, fi >>

\* p.parity(); a panic is caught.
DoParity ==
    /\ Live(buf)
    /\ "new" \in via
    /\ LET r == PermutationParity(buf.ty, buf.val)
       IN  ret' = [NoRet EXCEPT !.op = "parity", !.ty = buf.ty,
                                !.out = IF r.panic = NoPanic THEN Some(r.val) ELSE None,
                                !.panic = r.panic]
    /\ UNCHANGED << buf, uninit, origin, pushed, calls, dropped, via, it, fi >>

\* b.pow_p(e) for a u8 b under Op and an exponent e of a type that
\* implements Naturals, in a build with or without debug assertions.
DoPowP(Op, b, e) ==
    /\ \E debug \in BOOLEAN, overridden \in BOOLEAN :
          LET r == pow_p(Op, b, e, debug, overridden)
          IN  ret' = [NoRet EXCEPT !.op = "pow_p", !.ty = << Op >>, !.seq = << b >>, !.idx = e,
                                   !.out = IF r.panic = NoPanic THEN Some(r.val) ELSE None,
                                   !.panic = r.panic]
    /\ UNCHANGED << buf, uninit, origin, pushed, calls, dropped, via, it, fi >>

\* b.pow_z(e)
DoPowZ(Op, b, e) ==
    /\ \E debug \in BOOLEAN, overridden \in BOOLEAN :
          LET r == pow_z(Op, b, e, debug, overridden)
          IN  ret' = [NoRet EXCEPT !.op = "pow_z", !.ty = << Op >>, !.seq = << b >>, !.idx = e,
                                   !.out = IF r.panic = NoPanic THEN Some(r.val) ELSE None,
                                   !.panic = r.panic]
    /\ UNCHANGED << buf, uninit, origin, pushed, calls, dropped, via, it, fi >>

\* buf.swap(i, j); a panic is caught, so the program goes on with buf.
DoSwap(i, j) ==
    /\ Live(buf)
    /\ buf.ty[1] # "Ref"
    /\ LET r == swap(buf.ty, buf.val, i, j)
       IN  /\ buf' = IF r.panic = NoPanic THEN [ty |-> buf.ty, val |-> r.val] ELSE buf
           /\ ret' = [NoRet EXCEPT !.op = "swap", !.a = buf, !.seq = << i, j >>,
                                   !.panic = r.panic]
    /\ origin' = None
    /\ UNCHANGED << uninit, pushed, calls, dropped, via, it, fi >>

\* buf.get(i)
DoGet(i) ==
    /\ Live(buf)
    /\ ret' = [NoRet EXCEPT !.op = "get", !.idx = i, !.out = get(buf.ty, buf.val, i)]
    /\ UNCHANGED << buf, uninit, origin, pushed, calls, dropped, via, it, fi >>

\* buf.len()
DoLen ==
    /\ Live(buf)
    /\ ret' = [NoRet EXCEPT !.op = "len", !.out = Some(len(buf.ty, buf.val))]
    /\ UNCHANGED << buf, uninit, origin, pushed, calls, dropped, via, it, fi >>

\* &buf[i]; the panic is caught, so the program goes on with buf.
DoIndex(i) ==
    /\ Live(buf)
    /\ LET r == index(buf.ty, buf.val, i)
       IN  ret' = [NoRet EXCEPT !.op = "index", !.idx = i,
                                !.out = IF r.panic = NoPanic THEN Some(r.val) ELSE None,
                                !.panic = r.panic]
    /\ UNCHANGED << buf, uninit, origin, pushed, calls, dropped, via, it, fi >>

\* Ref(&buf): from here on the program uses buf through the view.
DoRef ==
    /\ Live(buf)
    /\ ~IsView(buf.ty)
    /\ buf' = [ty |-> RefT(buf.ty), val |-> RefV(buf.val)]
    /\ ret' = [NoRet EXCEPT !.op = "ref"]
    /\ UNCHANGED << uninit, origin, pushed, calls, dropped, via, it, fi >>

\* Mut(&mut buf)
DoMut ==
    /\ Live(buf)
    /\ ~IsView(buf.ty)
    /\ buf' = [ty |-> MutT(buf.ty), val |-> MutV(buf.val)]
    /\ ret' = [NoRet EXCEPT !.op = "mut"]
    /\ UNCHANGED << uninit, origin, pushed, calls, dropped, via, it, fi >>

\* The view goes out of scope.
DoRelease ==
    /\ Live(buf)
    /\ IsView(buf.ty)
    /\ buf' = [ty |-> buf.ty[2], val |-> buf.val[2][1]]
    /\ ret' = [NoRet EXCEPT !.op = "release"]
    /\ UNCHANGED << uninit, origin, pushed, calls, dropped, via, it, fi >>

\* let uninit = UninitStackStorage::<ty>::new(); for the types of at most
\* MaxLen elements.
DoNew(ty) ==
    /\ buf = NoBuf
    /\ uninit = NoUninit
    /\ SIZE_U(ty) <= MaxLen
    /\ uninit' = UninitNew(ty)
    /\ ret' = [NoRet EXCEPT !.op = "new", !.ty = ty]
    /\ pushed' = << >>
    /\ calls' = 0
    /\ UNCHANGED << buf, origin, dropped, via, it, fi >>

\* uninit.push(value); a panic is caught, so the program goes on with uninit.
DoPush(value) ==
    /\ buf = NoBuf
    /\ uninit # NoUninit
    /\ calls <= SIZE_U(uninit.ty) + 1
    /\ LET r == UninitPush(uninit, value)
       IN  /\ uninit' = r.val
           /\ ret' = [NoRet EXCEPT !.op = "push", !.u = uninit, !.idx = value,
                                   !.panic = r.panic]
           /\ pushed' = IF r.panic = NoPanic THEN Append(pushed, value) ELSE pushed
    /\ dropped' = dropped \o UninitPushDrops(uninit, value)
    /\ calls' = calls + 1
    /\ UNCHANGED << buf, origin, via, it, fi >>

\* uninit.extend(iter); a panic is caught, so the program goes on with
\* uninit.  The push that panics drops its argument, and the unwinding the
\* iterator with what it still holds.
DoExtend(iter) ==
    /\ buf = NoBuf
    /\ uninit # NoUninit
    /\ calls <= SIZE_U(uninit.ty) + 1
    /\ LET r == UninitExtend(uninit, iter)
           n == Accepted(uninit, iter)
       IN  /\ uninit' = r.val
           /\ ret' = [NoRet EXCEPT !.op = "extend", !.u = uninit, !.seq = iter,
                                   !.panic = r.panic]
           /\ pushed' = pushed \o SubSeq(iter, 1, n)
           /\ calls' = calls + (IF r.panic = NoPanic THEN n ELSE n + 1)
           /\ dropped' = IF r.panic = NoPanic
                         THEN dropped
                         ELSE dropped \o UninitPushDrops(r.val, iter[n + 1])
                                \o Dropped("iter", SubSeq(iter, n + 2, Len(iter)))
    /\ UNCHANGED << buf, origin, via, it, fi >>

\* let buf = uninit.init();
DoInit ==
    /\ buf = NoBuf
    /\ uninit # NoUninit
    /\ LET r == UninitInit(uninit)
       IN  /\ buf' = IF r.panic = NoPanic THEN [ty |-> uninit.ty, val |-> r.val]
                     ELSE Moved
           /\ ret' = [NoRet EXCEPT !.op = "init", !.u = uninit, !.panic = r.panic]
    /\ uninit' = NoUninit
    /\ dropped' = dropped \o UninitInitDrops(uninit)
    /\ via' = {"init"}
    /\ UNCHANGED << origin, pushed, calls, it, fi >>

\* drop(uninit); the builder goes out of scope before init was called.
DoDropUninit ==
    /\ buf = NoBuf
    /\ uninit # NoUninit
    /\ ret' = [NoRet EXCEPT !.op = "drop_uninit", !.u = uninit]
    /\ uninit' = NoUninit
    /\ buf' = Moved
    /\ dropped' = dropped \o UninitDrop(uninit)
    /\ UNCHANGED << origin, pushed, calls, via, it, fi >>

\* drop(buf); the storage goes out of scope.
DoDrop ==
    /\ Live(buf)
    /\ ~IsView(buf.ty)
    /\ it = NoIter
    /\ ret' = [NoRet EXCEPT !.op = "drop", !.a = buf]
    /\ buf' = Moved
    /\ dropped' = dropped \o DropGlue(buf.val)
    /\ UNCHANGED << uninit, origin, pushed, calls, via, it, fi >>

\* A program that collects a storage, reads it directly or through views,
\* and takes it apart again.
Next ==
    \/ DoFromIter(OwnedTypes)
    \/ DoIntoIter
    \/ \E i \in 0 .. MaxLen : DoGet(i)
    \/ DoLen
    \/ \E i \in 0 .. MaxLen : DoIndex(i)
    \/ DoRef
    \/ DoMut
    \/ DoRelease

Spec == Init /\ [][Next]_vars

\* A program that collects a stack storage, merges others onto it,
\* transmutes the result into a flat array, and drops it.
NextLayout ==
    \/ DoCollect(StackTypes)
    \/ \E ty \in T1 : DoMergeJoin(ty)
    \/ \E N \in 0 .. MaxLen : DoTransmuteArray(N)
    \/ DoDrop

SpecLayout == Init /\ [][NextLayout]_vars

\* A program that collects a stack storage, transmutes it into stack
\* storages of other types, and drops it.
NextTransmute ==
    \/ DoFromIter(StackTypes)
    \/ \E S \in StackTypes : DoTransmuteBuffer(S)
    \/ \E N \in 0 .. MaxLen : DoTransmuteArray(N)
    \/ DoDrop

SpecTransmute == Init /\ [][NextTransmute]_vars

\* A program that collects a storage and walks it with iter().
NextIter ==
    \/ DoFromIter(OwnedTypes)
    \/ DoIter
    \/ DoIterNext

SpecIter == Init /\ [][NextIter]_vars

\* A program that collects a storage and walks it with iter_mut(),
\* directly or through a Mut view.
NextIterMut ==
    \/ DoFromIter(OwnedTypes)
    \/ DoMut
    \/ DoIterMut
    \/ DoIterMutNext

SpecIterMut == Init /\ [][NextIterMut]_vars

\* A program that collects a storage and asks for sizes of its type.
NextSize ==
    \/ DoFromIter(OwnedTypes)
    \/ DoRef
    \/ DoSize
    \/ \E value \in 0 .. MaxLen + 1 : DoSizeFromUsize(value)
    \/ DoSizeDefault

SpecSize == Init /\ [][NextSize]_vars

NextArray ==
    \/ DoCollectArray
    \/ \E i \in 0 .. MaxLen + 1 : DoGet(i)
    \/ \E i \in 0 .. MaxLen + 1 : DoIndex(i)
    \/ DoLen

\* A program that collects an ArrayStorage and reads its elements.
SpecArray == Init /\ [][NextArray]_vars

NextPerm ==
    \/ DoFromUsizes(OwnedTypes)
    \/ DoPermutationNew
    \/ \E value \in 0 .. MaxLen : DoIdentity(value)
    \/ DoMul
    \/ DoParity

\* A program building permutations, multiplying them and taking parities.
SpecPerm == Init /\ [][NextPerm]_vars

NextPow ==
    \/ \E Op \in {"Add", "Mul"}, b \in 0 .. MaxBase, e \in 0 .. MaxExp : DoPowP(Op, b, e)
    \/ \E Op \in {"Add", "Mul"}, b \in 0 .. MaxBase, e \in 0 .. MaxExp : DoPowZ(Op, b, e)

\* A program taking powers of u8 values.
SpecPow == Init /\ [][NextPow]_vars

\* A program that collects a storage and swaps its elements, directly or
\* through a Mut view.
NextSwap ==
    \/ DoFromIter(OwnedTypes)
    \/ DoMut
    \/ \E i \in 0 .. MaxLen, j \in 0 .. MaxLen : DoSwap(i, j)

SpecSwap == Init /\ [][NextSwap]_vars

\* A program that makes a VecStorage, by from_iter or by merge, reads it
\* and drops it.
NextVec ==
    \/ \E S \in T1 : DoVecBegin(S)
    \/ DoVecChunk
    \/ \E T \in T1, m \in 0 .. MaxLen, n \in 0 .. MaxLen : DoMergeVec(T, m, n)
    \/ \E i \in 0 .. MaxLen : DoGet(i)
    \/ DoLen
    \/ DoDrop

SpecVec == Init /\ [][NextVec]_vars

\* A program that fills a staged initializer by hand and finishes it.
NextUninit ==
    \/ \E ty \in StackTypes : DoNew(ty)
    \/ \E value \in Vals : DoPush(value)
    \/ \E iter \in ExtendSeqs : DoExtend(iter)
    \/ DoInit
    \/ DoDropUninit
    \/ DoDrop
    \/ DoIntoIter

SpecUninit == Init /\ [][NextUninit]_vars

(***************************************************************************)
(* Properties                                                              *)
(***************************************************************************)
\* The panics of a construction that ran out of elements.
NotEnoughElements == {PanicNotFull, PanicUnwrapNone}

\* The flat array ArrayStorage([Entry(e1), ..., Entry(eN)]) written out.
FlatArray(elems) ==
    [ty |-> ArrayT(EntryT, Len(elems)),
     val |-> ArrayV([i \in 1 .. Len(elems) |-> EntryV(elems[i])])]

\* C1: a fixed buffer collected from a sequence of exactly SIZE elements
\* and then taken apart with into_iter yields that sequence, in order.
C1_RoundTrip ==
    (/\ ret.op = "into_iter"
     /\ origin # None
     /\ IsStack(ret.a.ty)
     /\ Len(origin[1]) = SIZE_U(ret.a.ty))
    => ret.out = origin[1]

C1_Witness ==
    /\ ret.op = "into_iter"
    /\ origin = Some(<< 1, 2, 1 >>)
    /\ ret.a.ty = JoinT(ArrayT(EntryT, 2), EntryT)
    /\ ret.out = << 1, 2, 1 >>

\* C2: merge_join(a, b) of stack storages of sizes m and n is a Join of
\* static size and length m + n whose element i is a[i] for i < m and
\* b[i - m] for m <= i < m + n.
C2_MergeJoin ==
    ret.op = "merge_join" =>
        LET m == SIZE_U(ret.a.ty)
            n == SIZE_U(ret.b.ty)
        IN  /\ buf.ty[1] = "Join"
            /\ SIZE(buf.ty) = Some(m + n)
            /\ len(buf.ty, buf.val) = m + n
            /\ \A i \in 0 .. m + n - 1 :
                  /\ index(buf.ty, buf.val, i).panic = NoPanic
                  /\ index(buf.ty, buf.val, i) =
                        IF i < m THEN index(ret.a.ty, ret.a.val, i)
                        ELSE index(ret.b.ty, ret.b.val, i - m)

C2_Witness ==
    /\ ret.op = "merge_join"
    /\ ret.a.ty = ArrayT(ArrayT(EntryT, 2), 1)
    /\ ret.b.ty = EntryT
    /\ index(buf.ty, buf.val, 0) = Ok(1)
    /\ index(buf.ty, buf.val, 1) = Ok(2)
    /\ index(buf.ty, buf.val, 2) = Ok(1)

\* C3: transmute_array::<N> of a stack storage of exactly N elements returns
\* the flat array of N entries holding the same elements in the same order,
\* which is also what collecting those elements into the flat array gives.
C3_TransmuteArray ==
    (ret.op = "transmute_array" /\ ret.idx = SIZE_U(ret.a.ty)) =>
        LET elems == IntoIter(ret.a.val)
        IN  /\ ret.panic = NoPanic
            /\ buf = FlatArray(elems)
            /\ buf.val = FromIter(ArrayT(EntryT, ret.idx), elems).val

C3_Witness ==
    /\ ret.op = "transmute_array"
    /\ ret.panic = NoPanic
    /\ ret.a.ty = JoinT(JoinT(ArrayT(ArrayT(EntryT, 1), 1), EntryT), ArrayT(EntryT, 1))
    /\ buf = FlatArray(<< 1, 2, 1 >>)

\* C4: get(i) is Some exactly when i < len(), for every storage.
C4_GetIffInRange ==
    ret.op = "get" => (ret.out # None <=> ret.idx < len(buf.ty, buf.val))

\* C5: indexing at any i >= len() panics, for every storage.
C5_IndexPanics ==
    (ret.op = "index" /\ ret.idx >= len(buf.ty, buf.val)) => ret.panic # NoPanic

\* C6: a storage whose static size is Some(n) reports len() = n.
C6_LenIsSize ==
    (ret.op = "len" /\ SIZE(buf.ty) # None) => ret.out = SIZE(buf.ty)

\* C7: collecting a fixed buffer of size N from fewer than N elements panics
\* for want of elements, and collecting it from exactly N elements succeeds
\* (and the buffer holds them).
C7_FromIterLength ==
    (ret.op = "from_iter" /\ IsStack(ret.ty)) =>
        /\ Len(ret.seq) < SIZE_U(ret.ty) =>
              (ret.panic \in NotEnoughElements /\ buf = Moved)
        /\ Len(ret.seq) = SIZE_U(ret.ty) =>
              (/\ ret.panic = NoPanic
               /\ buf.ty = ret.ty
               /\ as_slice(buf.ty, buf.val) = ret.seq)

C7_Witness ==
    /\ ret.op = "from_iter"
    /\ ret.ty = JoinT(ArrayT(EntryT, 2), EntryT)
    /\ ret.seq = << 2, 1 >>
    /\ ret.panic = PanicNotFull

\* C8: collecting a fixed buffer of size N from a sequence of any other
\* length panics; a longer sequence never yields a buffer.
C8_WrongLengthPanics ==
    (ret.op = "from_iter" /\ IsStack(ret.ty) /\ Len(ret.seq) # SIZE_U(ret.ty))
    => ret.panic # NoPanic

\* C9: push writes the value into slot `len` and adds one to len when len is
\* below SIZE, leaving the other slots alone; at len = SIZE it panics with
\* "stack storage full", so every push call after the SIZE-th panics.
C9_Push ==
    ret.op = "push" =>
        LET u == ret.u
            N == SIZE_U(u.ty)
        IN  /\ IF u.len < N
               THEN /\ ret.panic = NoPanic
                    /\ uninit.len = u.len + 1
                    /\ uninit.storage[u.len + 1] = ret.idx
                    /\ \A k \in 1 .. N :
                          k # u.len + 1 => uninit.storage[k] = u.storage[k]
               ELSE ret.panic = PanicFull
            /\ calls > N => ret.panic = PanicFull

C9_Witness ==
    /\ ret.op = "push"
    /\ uninit.ty = ArrayT(EntryT, 2)
    /\ calls = 3
    /\ pushed = << 2, 1 >>
    /\ ret.panic = PanicFull

\* C10: init returns the buffer exactly when len = SIZE, and the buffer then
\* holds the pushed values in push order; with a smaller len it panics with
\* "stack storage not full".
C10_Init ==
    ret.op = "init" =>
        LET u == ret.u
        IN  IF u.len = SIZE_U(u.ty)
            THEN /\ ret.panic = NoPanic
                 /\ buf.ty = u.ty
                 /\ IntoIter(buf.val) = pushed
                 /\ \A i \in 0 .. Len(pushed) - 1 :
                       get(buf.ty, buf.val, i) = Some(pushed[i + 1])
            ELSE /\ u.len < SIZE_U(u.ty)
                 /\ ret.panic = PanicNotFull
                 /\ buf = Moved

C10_Witness ==
    /\ ret.op = "init"
    /\ ret.panic = NoPanic
    /\ buf.ty = JoinT(ArrayT(EntryT, 2), EntryT)
    /\ pushed = << 1, 2, 2 >>

\* The elements destroyed so far by the destructor runs of one kind.
DroppedBy(by) ==
    LET IsBy(e) == e[1] = by
        runs == SelectSeq(dropped, IsBy)
    IN  [i \in 1 .. Len(runs) |-> runs[i][2]]

\* C11: when a staged initializer is dropped before init returned a
\* buffer, by going out of scope or by the unwinding of a panicking init,
\* with k elements pushed, its destructor destroys the k pushed elements,
\* slot by slot and once each, and no destructor reads an unwritten slot.
C11_DropBeforeInit ==
    (\/ ret.op = "drop_uninit"
     \/ ret.op = "init" /\ ret.panic # NoPanic)
    => /\ DroppedBy("uninit") = pushed
       /\ Len(pushed) = ret.u.len
       /\ DroppedBy("glue") = << >>
       /\ \A i \in 1 .. Len(dropped) : dropped[i][2] # UNINIT

C11_Witness ==
    /\ ret.op = "drop_uninit"
    /\ SIZE_U(ret.u.ty) = 3
    /\ pushed = << 1, 2 >>
    /\ DroppedBy("uninit") = << 1, 2 >>

\* C12: an init that returns leaves the pushed elements to the buffer it
\* returns, with no destructor run on them; they are destroyed once each
\* and by the buffer alone when the buffer is dropped.
C12_InitTransfers ==
    /\ (ret.op = "init" /\ ret.panic = NoPanic)
       => /\ DroppedBy("uninit") = << >>
          /\ DroppedBy("glue") = << >>
          /\ Owned(buf.val) = pushed
    /\ (ret.op = "drop" /\ "init" \in via)
       => /\ DroppedBy("uninit") = << >>
          /\ DroppedBy("glue") = pushed

C12_Witness ==
    /\ ret.op = "drop"
    /\ via = {"init"}
    /\ ret.a.ty = JoinT(ArrayT(EntryT, 2), EntryT)
    /\ pushed = << 1, 2, 2 >>
    /\ DroppedBy("glue") = << 1, 2, 2 >>

\* C13: transmute_buffer::<S>() returns exactly when the static size, the
\* memory size and the alignment of the source type equal those of S, and
\* what it returns is an S; it panics on the first assertion whenever the
\* static sizes differ.  transmute_array::<N>() panics exactly when N is
\* not the number of elements the source holds.
C13_TransmuteAsserts ==
    /\ ret.op = "transmute_buffer"
       => /\ ret.panic = NoPanic
             <=> /\ SIZE(ret.a.ty) = SIZE(ret.ty)
                 /\ SizeOf(ret.a.ty) = SizeOf(ret.ty)
                 /\ AlignOf(ret.a.ty) = AlignOf(ret.ty)
          /\ SIZE(ret.a.ty) # SIZE(ret.ty) => ret.panic = PanicAssertSize
          /\ ret.panic = NoPanic => buf.ty = ret.ty
          /\ ret.panic # NoPanic => buf = Moved
    /\ ret.op = "transmute_array"
       => /\ ret.panic # NoPanic <=> ret.idx # Len(Owned(ret.a.val))
          /\ ret.panic = NoPanic => buf.ty = ArrayT(EntryT, ret.idx)

C13_Witness ==
    /\ ret.op = "transmute_buffer"
    /\ ret.a.ty = ArrayT(EntryT, 2)
    /\ ret.ty = JoinT(ArrayT(EntryT, 2), EntryT)
    /\ ret.panic = PanicAssertSize

\* C14: a transmute that returns runs no destructor and hands every element
\* of the source to the result; when the result is dropped later, each
\* element is destroyed once, by the drop of the result.
C14_TransmuteForgets ==
    /\ (ret.op \in Transmutes /\ ret.panic = NoPanic)
       => /\ DroppedBy("glue") = << >>
          /\ Owned(buf.val) = Owned(ret.a.val)
    /\ (ret.op = "drop" /\ via \cap Transmutes # {})
       => DroppedBy("glue") = Owned(ret.a.val)

C14_Witness ==
    /\ ret.op = "drop"
    /\ via = {"from_iter", "transmute_array"}
    /\ ret.a = FlatArray(<< 1, 2, 2 >>)
    /\ DroppedBy("glue") = << 1, 2, 2 >>

\* C15: collecting a VecStorage<S>, S of static size k > 0, from a sequence
\* of n elements returns exactly when k divides n, with n / k chunks, the
\* c-th chunk holding the c-th group of k consecutive elements in order;
\* it panics with "iterator could not fill inner type" otherwise.
C15_VecFromIter ==
    (ret.op = "from_iter" /\ ret.ty[1] = "Vec" /\ SIZE_U(ret.ty[2]) > 0) =>
        LET k == SIZE_U(ret.ty[2])
            n == Len(ret.seq)
        IN  /\ ret.panic = NoPanic <=> n % k = 0
            /\ ret.panic # NoPanic => ret.panic = PanicCouldNotFill /\ buf = Moved
            /\ ret.panic = NoPanic
               => /\ buf.ty = ret.ty
                  /\ Len(buf.val[2]) = n \div k
                  /\ \A c \in 1 .. n \div k :
                        Owned(buf.val[2][c]) = SubSeq(ret.seq, (c - 1) * k + 1, c * k)

C15_Witness ==
    /\ ret.op = "from_iter"
    /\ ret.ty = VecT(JoinT(EntryT, EntryT))
    /\ ret.seq = << 1, 2, 1 >>
    /\ ret.panic = PanicCouldNotFill

\* C16: from_iter for a VecStorage<S> with S of static size zero returns at
\* once, for a finite and for an endless iterator: it returns the vector
\* with no chunks, of length 0, without taking an element or entering the
\* loop.
C16_ZeroSize ==
    (fi # NoRun /\ SIZE_U(fi.S) = 0) =>
        /\ fi.pc = "done"
        /\ fi.taken = 0
        /\ ret.op = "from_iter"
           => /\ ret.panic = NoPanic
              /\ buf = [ty |-> VecT(fi.S), val |-> VecV(<< >>)]
              /\ len(buf.ty, buf.val) = 0

C16_Witness ==
    /\ ret.op = "from_iter"
    /\ fi.S = ArrayT(EntryT, 0)
    /\ fi.endless
    /\ fi.pc = "done"
    /\ buf.val = VecV(<< >>)

\* C17: a VecStorage<S> made by from_iter or by merge reports the number of
\* its chunks times the static size k of S as len(), and get(i) for i below
\* that is the element at offset i % k of chunk i / k.
C17_VecLayout ==
    (Live(buf) /\ buf.ty[1] = "Vec") =>
        LET S == buf.ty[2]
            k == SIZE_U(S)
            chunks == buf.val[2]
        IN  /\ len(buf.ty, buf.val) = Len(chunks) * k
            /\ ret.op = "len" => ret.out = Some(Len(chunks) * k)
            /\ \A i \in 0 .. Len(chunks) * k - 1 :
                  /\ get(buf.ty, buf.val, i) = get(S, chunks[(i \div k) + 1], i % k)
                  /\ get(buf.ty, buf.val, i) # None
            /\ (ret.op = "get" /\ ret.idx < Len(chunks) * k)
               => ret.out = get(S, chunks[(ret.idx \div k) + 1], ret.idx % k)

C17_Witness ==
    /\ ret.op = "get"
    /\ via = {"merge"}
    /\ buf.ty = VecT(JoinT(EntryT, EntryT))
    /\ Len(buf.val[2]) = 1
    /\ ret.idx = 1
    /\ ret.out = Some(2)

\* C18: merge(a, b) into a VecStorage has length a.len() + b.len() and holds
\* the elements of a in order, then those of b in order.
C18_MergeVec ==
    ret.op = "merge" =>
        LET m == len(ret.a.ty, ret.a.val)
            n == len(ret.b.ty, ret.b.val)
        IN  /\ len(buf.ty, buf.val) = m + n
            /\ as_slice(buf.ty, buf.val) =
                  Flatten([i \in 1 .. m |-> Mem(index(ret.a.ty, ret.a.val, i - 1).val)])
                    \o Flatten([i \in 1 .. n |-> Mem(index(ret.b.ty, ret.b.val, i - 1).val)])

\* C19: the k-th next() call on an iter() of a buffer returns get(k - 1),
\* an element, for k up to len(), and None for every later call; this
\* holds for every iter() made on the buffer, the first and a later one.
C19_Iter ==
    it.run > 0 =>
        LET n == len(buf.ty, buf.val)
        IN  \A k \in 1 .. Len(it.out) :
               IF k <= n
               THEN it.out[k] = get(buf.ty, buf.val, k - 1) /\ it.out[k] # None
               ELSE it.out[k] = None

\* C20: swap(i, j) with i and j below len() returns with elements i and j
\* exchanged, every other element and the length as they were; with i or j
\* not below len() it panics and the buffer is as it was.
C20_Swap ==
    ret.op = "swap" =>
        LET i == ret.seq[1]
            j == ret.seq[2]
            n == len(ret.a.ty, ret.a.val)
        IN  IF i < n /\ j < n
            THEN /\ ret.panic = NoPanic
                 /\ len(buf.ty, buf.val) = n
                 /\ get(buf.ty, buf.val, i) = get(ret.a.ty, ret.a.val, j)
                 /\ get(buf.ty, buf.val, j) = get(ret.a.ty, ret.a.val, i)
                 /\ \A k \in 0 .. MaxLen :
                       k \notin {i, j}
                       => get(buf.ty, buf.val, k) = get(ret.a.ty, ret.a.val, k)
            ELSE /\ ret.panic # NoPanic
                 /\ buf = ret.a

\* C21: the references one iter_mut() hands out over its lifetime are to
\* the indices 0, 1, 2, ... in this order: the k-th next() that returns a
\* reference returns the one to index k - 1, every index is handed out at
\* most once, and no two references are to the same element.
C21_IterMut ==
    it.run > 0 =>
        /\ \A k \in 1 .. Len(it.out) :
              it.out[k] # None
              => /\ it.out[k] = Some(k - 1)
                 /\ get(buf.ty, buf.val, k - 1) # None
        /\ \A j \in 1 .. Len(it.out), k \in 1 .. Len(it.out) :
              (j < k /\ it.out[j] # None /\ it.out[k] # None)
              => it.out[j][1] < it.out[k][1]
        /\ \A i \in 0 .. len(buf.ty, buf.val) - 1 :
              Cardinality({k \in 1 .. Len(it.out) : it.out[k] = Some(i)}) <= 1

C21_Witness ==
    /\ it.run = 2
    /\ buf.ty = MutT(JoinT(ArrayT(EntryT, 2), EntryT))
    /\ it.out = << Some(0), Some(1), Some(2), None >>

\* C22: Size::<S>::from_usize(v) returns the size v when S has no static
\* size or its static size is v, and panics with "size mismatch" when S has
\* a static size other than v; size() returns the size len() on every
\* buffer.
C22_Size ==
    /\ ret.op = "from_usize"
       => IF SIZE(ret.ty) = None \/ SIZE(ret.ty) = Some(ret.idx)
          THEN ret.panic = NoPanic /\ ret.out = Some(ret.idx)
          ELSE ret.panic = PanicSizeMismatch
    /\ ret.op = "size"
       => ret.panic = NoPanic /\ ret.out = Some(len(buf.ty, buf.val))

\* The number of inversions of a sequence of entries.
Inversions(s) ==
    Cardinality({ij \in (1 .. Len(s)) \X (1 .. Len(s)) : ij[1] < ij[2] /\ s[ij[1]] > s[ij[2]]})

\* The entries are pairwise distinct and each is less than their number.
IsBijection(s) ==
    /\ \A i \in 1 .. Len(s) : s[i] < Len(s)
    /\ \A i \in 1 .. Len(s), j \in 1 .. Len(s) : i # j => s[i] # s[j]

\* C23: Permutation::new(s) returns Some exactly when the entries of s are
\* pairwise distinct and every entry is less than the length of s, that is
\* when s is a bijection on 0 .. len - 1, and None otherwise, without a panic.
C23_New ==
    ret.op = "new" =>
        /\ ret.panic = NoPanic
        /\ ret.out # None <=> IsBijection(Owned(ret.a.val))
        /\ ret.out # None => ret.out = Some(ret.a)

\* p[p[i]] = i for every index i of the permutation p.
SelfInverse(p) ==
    \A i \in 0 .. PermutationLen(p.ty, p.val) - 1 :
        ComposeAt(p, p, i) = Ok(i)

\* C24: for valid permutations p and q of the same length n the product
\* p * q is returned, has (p * q)[i] = p[q[i]] for every i < n and is a valid
\* permutation; a self-inverse permutation times itself is identity(n); and
\* identity(n)[i] = i for every i < n.
C24_Compose ==
    /\ (ret.op = "mul" /\ PermutationLen(ret.a.ty, ret.a.val) = PermutationLen(ret.b.ty, ret.b.val)) =>
          LET n == PermutationLen(ret.a.ty, ret.a.val)
          IN  /\ ret.panic = NoPanic
              /\ \A i \in 0 .. n - 1 :
                    PermutationIndex(ret.ty, ret.out[1], i) = ComposeAt(ret.a, ret.b, i)
              /\ PermutationNew(ret.ty, ret.out[1]) # None
              /\ (ret.b = ret.a /\ SelfInverse(ret.a)) =>
                    Ok(ret.out[1]) = PermutationIdentity(ret.ty, n)
    /\ (ret.op = "identity" /\ ret.idx = PermutationLen(buf.ty, buf.val)) =>
          /\ ret.panic = NoPanic
          /\ \A i \in 0 .. ret.idx - 1 : PermutationIndex(ret.ty, ret.out[1], i) = Ok(i)

\* C25: on a valid permutation parity() returns, and returns Odd exactly
\* when the permutation is odd, that is has an odd number of inversions, and
\* Even otherwise.
C25_Parity ==
    ret.op = "parity" =>
        /\ ret.panic = NoPanic
        /\ ret.out = Some(IF Inversions(Owned(buf.val)) % 2 = 1 THEN Odd ELSE Even)

\* b op b op ... op b with b appearing e times, e >= 1, in the integers.
RECURSIVE Power(_, _, _)
Power(Op, b, e) ==
    IF e = 1 THEN b
    ELSE IF Op = "Add" THEN Power(Op, b, e - 1) + b ELSE Power(Op, b, e - 1) * b

\* C26: b.pow_p(e) leaves in b the e-th power of b for every e >= 1 (here
\* whenever a u8 holds that power), and leaves b unchanged for e = 0.
C26_PowP ==
    ret.op = "pow_p" =>
        IF ret.idx = 0
        THEN ret.panic = NoPanic /\ ret.out = Some(ret.seq[1])
        ELSE Power(ret.ty[1], ret.seq[1], ret.idx) <= U8_MAX =>
                /\ ret.panic = NoPanic
                /\ ret.out = Some(Power(ret.ty[1], ret.seq[1], ret.idx))

\* The element at offset i % S.size of sub-storage i / S.size of the
\* ArrayStorage<S, N> b, reached through the sub-storage.
Routed(b, i) ==
    LET k == SIZE_U(b.ty[2])
    IN  get(b.ty[2], b.val[2][(i \div k) + 1], i % k)

\* C27: for an ArrayStorage<S, N> and every i < S.size * N, indexing at the
\* flat position i gives the element at offset i % S.size of sub-storage
\* i / S.size.
C27_FlatIndex ==
    (ret.op \in {"index", "get"} /\ buf.ty[1] = "Array" /\ ret.idx < SIZE_U(buf.ty)) =>
        /\ ret.panic = NoPanic
        /\ ret.out # None
        /\ ret.out = Routed(buf, ret.idx)

C27_Witness ==
    /\ ret.op = "index"
    /\ buf.ty = ArrayT(ArrayT(EntryT, 2), 2)
    /\ ret.idx = 3
    /\ Mem(buf.val) = << 1, 1, 1, 2 >>
    /\ ret.out = Some(2)

C29_Staged ==
    /\ uninit # NoUninit =>
          /\ uninit.len <= SIZE_U(uninit.ty)
          /\ uninit.len = Len(pushed)
          /\ \A k \in 1 .. uninit.len : uninit.storage[k] = pushed[k]
    /\ (ret.op = "push" /\ ret.panic # NoPanic) => uninit = ret.u
    /\ (ret.op = "extend" /\ ret.panic # NoPanic) =>
          /\ uninit.len = SIZE_U(uninit.ty)
          /\ \A k \in 1 .. ret.u.len : uninit.storage[k] = ret.u.storage[k]
          /\ \A k \in ret.u.len + 1 .. uninit.len :
                uninit.storage[k] = ret.seq[k - ret.u.len]

C29_Witness ==
    /\ ret.op = "push"
    /\ ret.panic = PanicFull
    /\ uninit.ty = JoinT(EntryT, EntryT)
    /\ uninit.len = 2
    /\ calls = 4
    /\ pushed = << 2, 1 >>

\* C30: when from_iter for VecStorage panics because the iterator ended
\* inside a chunk, every element taken from it is destroyed once: those of
\* the chunks built by the drop of the vector of chunks, those of the chunk
\* being filled by the drop of its staged initializer, and no destructor
\* runs on an unwritten slot, on an element twice or on anything else.
C30_VecPanicDrops ==
    (ret.op = "from_iter" /\ ret.panic = PanicCouldNotFill) =>
        LET k == SIZE_U(fi.S)
            taken == Upcoming(fi.src, fi.endless, 0, fi.taken)
            built == (fi.taken \div k) * k
        IN  /\ fi.taken % k # 0
            /\ DroppedBy("glue") = SubSeq(taken, 1, built)
            /\ DroppedBy("uninit") = SubSeq(taken, built + 1, fi.taken)
            /\ Len(dropped) = fi.taken
            /\ \A i \in 1 .. Len(dropped) : dropped[i][2] # UNINIT

C30_Witness ==
    /\ ret.op = "from_iter"
    /\ ret.panic = PanicCouldNotFill
    /\ fi.S = ArrayT(EntryT, 2)
    /\ fi.src = << 1, 2, 2 >>
    /\ DroppedBy("glue") = << 1, 2 >>
    /\ DroppedBy("uninit") = << 2 >>
====
